---- MODULE Spec2Model ----
(***************************************************************************)
(* State-machine model of AssemblyProcessor                                *)
(* (src/modules/assembly/processing.py): load_data / _clean_data,          *)
(* analyze_assembly_capacity and analyze_transfer_needs.                   *)
(*                                                                         *)
(* Numbers.  pandas holds the quantity columns as floats.  A quantity q is *)
(* modelled by the integer q * Scale, so that fractions of a unit (1/Scale)*)
(* exist; every division of the code is carried out exactly on these       *)
(* integers (floor, truncation and rounding are written out).  The input   *)
(* figures are such that the float results of the code (x / 30 * 30,       *)
(* round(x, 1), the priority sums) equal the exact ones.                   *)
(* Reported figures keep the code's rounding: avg_monthly_sales of a ready *)
(* or transfer entry is in hundredths (round(x, 2)), days_of_inventory and *)
(* days_supply_in_main are in tenths of a day (round(x, 1)); quantities    *)
(* passed through int() are whole units; all others are in 1/Scale units.  *)
(* Text.  A SKU or a location name is the sequence of its characters, so   *)
(* that startswith, contains, strip and replace are computed.              *)
(***************************************************************************)
EXTENDS Integers, Sequences, FiniteSets, TLC

VARIABLES
    loaded,           \* load_data has filled the three tables
    files,            \* the three tables as read from the files, before _clean_data
    availability_df,  \* self.availability_df : sequence of inventory rows
    kpi_df,           \* self.kpi_df          : sequence of sales rows
    bom_df,           \* self.bom_df          : sequence of BOM rows
    debug_mode,       \* self.debug_mode
    last_call,        \* the analysis method called last, "none" before any
    returned,         \* the value that call returned
    fields_read,      \* the fields of self that call read
    runs,             \* how many analyze_assembly_capacity calls were made in a row
    running,          \* FileCleanupManager.running
    cleanup_thread,   \* FileCleanupManager.cleanup_thread : a Thread object, or NoThread
    loop_pc,          \* where each Thread object is in _cleanup_loop
    loop_left,        \* rounds left in the sleep loop of each thread
    caller_pc,        \* where each caller is in start_/stop_scheduled_cleanup
    route_pc,         \* where process_assembly_files is
    uploads,          \* request.files : what was uploaded under each file key
    validated_files,  \* the keys of validated_files, in insertion order
    temp_files,       \* temp_files
    written,          \* the files whose save() returned
    disk,             \* the files of this request present under uploads/assembly
    cleaned,          \* how many entries of temp_files the finally clause has been through
    removal_failed,   \* the files whose os.remove raised
    response,         \* the response of the handler
    processor_invoked,\* AssemblyProcessor was constructed
    alerts_sent       \* send_error_alert calls

\* the state of the AssemblyProcessor
procVars == <<loaded, files, availability_df, kpi_df, bom_df, debug_mode, last_call, returned,
              fields_read, runs>>

\* the state of the FileCleanupManager
cleanupVars == <<running, cleanup_thread, loop_pc, loop_left, caller_pc>>

\* the state of one process_assembly_files request
routeVars == <<route_pc, uploads, validated_files, temp_files, written, disk, cleaned,
               removal_failed, response, processor_invoked, alerts_sent>>

vars == <<procVars, cleanupVars, routeVars>>

(***************************************************************************)
(* Bounds of the model                                                     *)
(***************************************************************************)
\* one unit of quantity is Scale model units; 1/Scale is the smallest fraction
Scale == 2
\* longest BOM table of the single-product input family
MaxBomRows == 2
\* analyze_assembly_capacity calls followed in a row
MaxRuns == 2

\* self.TARGET_DAYS_INVENTORY
TARGET_DAYS_INVENTORY == 30

(***************************************************************************)
(* Text                                                                    *)
(***************************************************************************)
StartsWith(s, p) == Len(s) >= Len(p) /\ SubSeq(s, 1, Len(p)) = p

Contains(s, p) == \E i \in 1..(Len(s) - Len(p) + 1) : SubSeq(s, i, i + Len(p) - 1) = p

\* str.replace(c, '', regex=False): every occurrence of the character removed
RemoveChar(s, c) == SelectSeq(s, LAMBDA x : x # c)

RECURSIVE LStrip(_, _)
LStrip(s, c) == IF s # <<>> /\ Head(s) = c THEN LStrip(Tail(s), c) ELSE s

RECURSIVE RStrip(_, _)
RStrip(s, c) == IF s # <<>> /\ s[Len(s)] = c THEN RStrip(SubSeq(s, 1, Len(s) - 1), c) ELSE s

\* str.strip(c)
Strip(s, c) == RStrip(LStrip(s, c), c)

\* NormalizeSKU that removes the equals signs and leaves the quotes
NormalizeSKUEqualsOnly(s) == RemoveChar(s, "=")

\* the SKU clean-up of the sales table
NormalizeSKU(s) == RemoveChar(Strip(Strip(RemoveChar(s, "="), "\""), "'"), "\"")

P1 == <<"P", "1">>
P2 == <<"P", "2">>
C1 == <<"C", "1">>
C2 == <<"C", "2">>
SV1 == <<"S", "V", "1">>
\* ="P1" as a spreadsheet export writes it
QuotedP1 == <<"=", "\"", "P", "1", "\"">>
\* ='P1', the same with single quotes
SingleQuotedP1 == <<"=", "'", "P", "1", "'">>

ServicePrefix == <<"S", "V">>
NC == <<"N", "C">>
Main == <<"M", "a", "i", "n">>
NCMain == <<"N", "C", " ", "-", " ", "M", "a", "i", "n">>
NCArmory == <<"N", "C", " ", "-", " ", "A", "r", "m", "o", "r", "y">>
\* 'NC - Main 2', a second location of the primary site
NCMain2 == <<"N", "C", " ", "-", " ", "M", "a", "i", "n", " ", "2">>

(***************************************************************************)
(* Arithmetic                                                              *)
(***************************************************************************)
Min(a, b) == IF a <= b THEN a ELSE b
Max(a, b) == IF a >= b THEN a ELSE b

\* int(n / d) for d > 0: truncation toward zero
TruncDiv(n, d) == IF n >= 0 THEN n \div d ELSE -((-n) \div d)

\* round(n / d) for d > 0, ties to even (Python round)
RoundDiv(n, d) ==
    LET q == n \div d
        r == n % d
    IN  IF 2 * r < d THEN q
        ELSE IF 2 * r > d THEN q + 1
        ELSE IF q % 2 = 0 THEN q ELSE q + 1

\* a raw cell of a numeric column: a number, or text that does not parse
Num(n) == [num |-> TRUE, val |-> n]
BadCell == [num |-> FALSE, val |-> 0]

\* ToNumericFillZero filling with 1
ToNumericFillOne(cell) == IF cell.num THEN cell.val ELSE 1

\* pd.to_numeric(cell, errors='coerce').fillna(0)
ToNumericFillZero(cell) == IF cell.num THEN cell.val ELSE 0

(***************************************************************************)
(* _clean_data                                                             *)
(***************************************************************************)
MapSeq(s, F(_)) == [i \in 1..Len(s) |-> F(s[i])]

\* availability: 'OnHand' and 'Available' coerced, failures become 0
CleanAvailability(raw) ==
    MapSeq(raw, LAMBDA r : [SKU |-> r.SKU, Location |-> r.Location,
                            OnHand |-> ToNumericFillZero(r.OnHand),
                            Available |-> ToNumericFillZero(r.Available),
                            ProductName |-> r.ProductName])

\* sales: SKU stripped of = and quotes, 'AVG sales/mo' coerced
CleanKpi(raw) ==
    MapSeq(raw, LAMBDA r : [SKU |-> NormalizeSKU(r.SKU),
                            AvgSales |-> ToNumericFillZero(r.AvgSales)])

\* BOM: 'Quantity' coerced (the BOM's own 'Available' column is cleaned the
\* same way and never read again)
CleanBom(raw) ==
    MapSeq(raw, LAMBDA r : [ProductSKU |-> r.ProductSKU, ComponentSKU |-> r.ComponentSKU,
                            Quantity |-> ToNumericFillZero(r.Quantity)])

(***************************************************************************)
(* Table helpers (pandas selections)                                       *)
(***************************************************************************)
RECURSIVE SumAvailable(_)
SumAvailable(rows) ==
    IF rows = <<>> THEN 0 ELSE Head(rows).Available + SumAvailable(Tail(rows))

\* UniqueFrom that keeps every value, repeated ones too
KeepAllFrom(s, seen) == seen \o s

\* Series.unique(): distinct values in order of first appearance
RECURSIVE UniqueFrom(_, _)
UniqueFrom(s, seen) ==
    IF s = <<>> THEN seen
    ELSE IF \E i \in 1..Len(seen) : seen[i] = Head(s)
         THEN UniqueFrom(Tail(s), seen)
         ELSE UniqueFrom(Tail(s), Append(seen, Head(s)))

\* BomProducts without unique(): one entry per BOM row
BomProductsWithDuplicates(bom) == MapSeq(bom, LAMBDA r : r.ProductSKU)

\* self.bom_df['Product SKU'].unique()
BomProducts(bom) == UniqueFrom(MapSeq(bom, LAMBDA r : r.ProductSKU), <<>>)

InSeq(x, s) == \E i \in 1..Len(s) : s[i] = x

\* the pre-filtered tables: rows whose SKU is a BOM product
AvailabilityFiltered(avail, bom) ==
    SelectSeq(avail, LAMBDA r : InSeq(r.SKU, BomProducts(bom)))

KpiFiltered(kpi, bom) ==
    SelectSeq(kpi, LAMBDA r : InSeq(r.SKU, BomProducts(bom)))

\* the location test of the assembly analysis: name contains 'NC' and 'Main'
IsPrimaryLocation(loc) == Contains(loc, NC) /\ Contains(loc, Main)

\* current_stock of a product: 'Available' summed over its primary-location rows
CurrentStock(avail, bom, sku) ==
    SumAvailable(SelectSeq(AvailabilityFiltered(avail, bom),
                           LAMBDA r : r.SKU = sku /\ IsPrimaryLocation(r.Location)))

\* product_name: first inventory row of the SKU, else 'Unknown'
ProductNameOf(avail, sku) ==
    LET rows == SelectSeq(avail, LAMBDA r : r.SKU = sku)
    IN  IF rows = <<>> THEN "Unknown" ELSE rows[1].ProductName

\* FirstAvgSales taking the last row of the SKU
LastAvgSales(kpi, sku) ==
    LET rows == SelectSeq(kpi, LAMBDA r : r.SKU = sku)
    IN  IF rows = <<>> THEN 0 ELSE rows[Len(rows)].AvgSales

\* first 'AVG sales/mo' of the SKU in a sales table, 0 when it has no row
FirstAvgSales(kpi, sku) ==
    LET rows == SelectSeq(kpi, LAMBDA r : r.SKU = sku)
    IN  IF rows = <<>> THEN 0 ELSE rows[1].AvgSales

\* ComponentAvailability counting the primary location only
ComponentAvailabilityPrimaryOnly(avail, component_sku) ==
    SumAvailable(SelectSeq(avail, LAMBDA r : r.SKU = component_sku
                                              /\ IsPrimaryLocation(r.Location)))

\* component_availability: 'Available' summed over every location
ComponentAvailability(avail, component_sku) ==
    SumAvailable(SelectSeq(avail, LAMBDA r : r.SKU = component_sku))

(***************************************************************************)
(* analyze_assembly_capacity, one BOM product                              *)
(***************************************************************************)
\* IsServiceComponent without the test: service rows count as components
IsServiceComponentNever(component_sku) == FALSE

\* str(component_sku).startswith('SV')
IsServiceComponent(component_sku) == StartsWith(component_sku, ServicePrefix)

\* AddRequirement that assigns: a later row of the component replaces the earlier
AddRequirementOverwrite(reqs, component_sku, qty) ==
    IF \E i \in 1..Len(reqs) : reqs[i].sku = component_sku
    THEN [i \in 1..Len(reqs) |->
             IF reqs[i].sku = component_sku
             THEN [sku |-> component_sku, required |-> qty]
             ELSE reqs[i]]
    ELSE Append(reqs, [sku |-> component_sku, required |-> qty])

\* component_requirements[component_sku] += required_qty, or a new key at the end
AddRequirement(reqs, component_sku, qty) ==
    IF \E i \in 1..Len(reqs) : reqs[i].sku = component_sku
    THEN [i \in 1..Len(reqs) |->
             IF reqs[i].sku = component_sku
             THEN [sku |-> component_sku, required |-> reqs[i].required + qty]
             ELSE reqs[i]]
    ELSE Append(reqs, [sku |-> component_sku, required |-> qty])

\* the loop over product_bom.iterrows(); reqs is the dict in insertion order
RECURSIVE AggregateRequirements(_, _)
AggregateRequirements(rows, reqs) ==
    IF rows = <<>> THEN reqs
    ELSE LET bom_entry == Head(rows)
         IN  IF bom_entry.Quantity <= 0
             THEN AggregateRequirements(Tail(rows), reqs)
             ELSE IF IsServiceComponent(bom_entry.ComponentSKU)
             THEN AggregateRequirements(Tail(rows), reqs)
             ELSE AggregateRequirements(Tail(rows),
                      AddRequirement(reqs, bom_entry.ComponentSKU, bom_entry.Quantity))

\* component_requirements of a product
ComponentRequirements(bom, product_sku) ==
    AggregateRequirements(SelectSeq(bom, LAMBDA r : r.ProductSKU = product_sku), <<>>)

\* IsShort with the comparison written <=
IsShortOrEqual(component_availability, required_qty) == component_availability <= required_qty

\* the test that puts a component in missing_components
IsShort(component_availability, required_qty) == component_availability < required_qty

\* missing_components: the short components, in dict order
MissingComponents(avail, reqs) ==
    MapSeq(SelectSeq(reqs, LAMBDA q : IsShort(ComponentAvailability(avail, q.sku), q.required)),
           LAMBDA q : [sku |-> q.sku, required |-> q.required,
                       available |-> ComponentAvailability(avail, q.sku),
                       shortage |-> q.required - ComponentAvailability(avail, q.sku)])

\* possible_assemblies of each component that is not short
PossibleAssemblies(avail, reqs) ==
    { ComponentAvailability(avail, reqs[i].sku) \div reqs[i].required :
        i \in { j \in 1..Len(reqs) :
                  ~IsShort(ComponentAvailability(avail, reqs[j].sku), reqs[j].required) } }

\* min_assemblies is still float('inf'): no component was sufficient
MinIsInfinite(avail, reqs) == PossibleAssemblies(avail, reqs) = {}

\* min_assemblies, when finite
MinAssemblies(avail, reqs) ==
    CHOOSE m \in PossibleAssemblies(avail, reqs) :
        \A n \in PossibleAssemblies(avail, reqs) : m <= n

\* HasNoRequirements without the early 'continue'
HasNoRequirementsNever(reqs) == FALSE

\* 'if not component_requirements: continue'
HasNoRequirements(reqs) == reqs = <<>>

\* NeedsAssembly that lets every product through
NeedsAssemblyAlways(current_stock, avg_monthly_sales) == TRUE

\* NeedsAssembly without the low-stock branch for products that have no sales
NeedsAssemblyVelocityOnly(current_stock, avg_monthly_sales) ==
    /\ avg_monthly_sales > 0
    /\ current_stock * 30 < TARGET_DAYS_INVENTORY * avg_monthly_sales

\* needs_assembly, from the stock and the first sales figure of the product
NeedsAssembly(current_stock, avg_monthly_sales) ==
    IF avg_monthly_sales > 0
    THEN \* days_of_inventory = current_stock / (avg_monthly_sales / 30) < TARGET
         current_stock * 30 < TARGET_DAYS_INVENTORY * avg_monthly_sales
    ELSE current_stock <= 5 * Scale

\* avg_monthly_sales after step 3: the sales figure, or the assumed 1 per month
EffectiveSales(avg_monthly_sales) ==
    IF avg_monthly_sales > 0 THEN avg_monthly_sales ELSE 1 * Scale

\* RecommendedAssembly without the cap by min_assemblies
RecommendedAssemblyUncapped(sales, current_stock, min_assemblies) ==
    IF sales > 0
    THEN Max(1, TruncDiv(TARGET_DAYS_INVENTORY * sales - 30 * current_stock, 30 * Scale))
    ELSE 10

\* recommended_assembly; sales is the effective figure, daily_sales = sales / 30
RecommendedAssembly(sales, current_stock, min_assemblies) ==
    IF sales > 0
    THEN \* int(TARGET * daily_sales - current_stock)
         Min(Max(1, TruncDiv(TARGET_DAYS_INVENTORY * sales - 30 * current_stock, 30 * Scale)),
             min_assemblies)
    ELSE Min(10, min_assemblies)

\* round(days_of_inventory, 1) in tenths of a day, 0 for float('inf')
DaysOfInventoryOut(current_stock, avg_monthly_sales) ==
    IF avg_monthly_sales > 0 THEN RoundDiv(current_stock * 30 * 10, avg_monthly_sales) ELSE 0

\* what one pass of the product loop does: nothing, or one entry for one list
EvaluateProduct(avail, kpi, bom, product_sku) ==
    LET current_stock == CurrentStock(avail, bom, product_sku)
        product_name  == ProductNameOf(avail, product_sku)
        sales0        == FirstAvgSales(KpiFiltered(kpi, bom), product_sku)
        sales         == EffectiveSales(sales0)
        reqs          == ComponentRequirements(bom, product_sku)
        missing       == MissingComponents(avail, reqs)
        can_assemble  == missing = <<>>
    IN  IF ~NeedsAssembly(current_stock, sales0) THEN [kind |-> "skip"]
        ELSE IF HasNoRequirements(reqs) THEN [kind |-> "skip"]
        ELSE IF can_assemble /\ ~MinIsInfinite(avail, reqs) /\ MinAssemblies(avail, reqs) > 0
        THEN LET min_assemblies == MinAssemblies(avail, reqs)
                 recommended    == RecommendedAssembly(sales, current_stock, min_assemblies)
             IN  IF recommended > 0
                 THEN [kind |-> "ready",
                       item |-> [product_sku |-> product_sku,
                                 product_name |-> product_name,
                                 quantity_for_assembly |-> recommended,
                                 available_in_nc |-> TruncDiv(current_stock, Scale),
                                 \* round(avg_monthly_sales, 2), in hundredths
                                 avg_monthly_sales |-> RoundDiv(sales * 100, Scale),
                                 days_of_inventory |-> DaysOfInventoryOut(current_stock, sales0),
                                 max_possible_assemblies |-> min_assemblies,
                                 components_needed |-> Len(reqs)]]
                 ELSE [kind |-> "skip"]
        ELSE [kind |-> "cannot",
              item |-> [product_sku |-> product_sku,
                        product_name |-> product_name,
                        missing_components |-> MapSeq(missing, LAMBDA c : c.sku),
                        component_details |-> missing,
                        total_components_required |-> Len(reqs),
                        missing_components_count |-> Len(missing)]]

(***************************************************************************)
(* analyze_assembly_capacity, the lists                                    *)
(***************************************************************************)
\* NewLists keeping the ready list of the previous run (a list held on self)
NewListsStale ==
    [assembly_ready |-> IF last_call = "analyze_assembly_capacity"
                        THEN returned.assembly_ready ELSE <<>>,
     cannot_assemble |-> <<>>]

\* assembly_ready = [] and cannot_assemble = [] at the start of a run
NewLists == [assembly_ready |-> <<>>, cannot_assemble |-> <<>>]

\* the loop over bom_products, appending to the two lists
RECURSIVE EvaluateProducts(_, _, _, _, _)
EvaluateProducts(avail, kpi, bom, products, lists) ==
    IF products = <<>> THEN lists
    ELSE LET e == EvaluateProduct(avail, kpi, bom, Head(products))
         IN  EvaluateProducts(avail, kpi, bom, Tail(products),
                 IF e.kind = "ready"
                 THEN [lists EXCEPT !.assembly_ready = Append(@, e.item)]
                 ELSE IF e.kind = "cannot"
                 THEN [lists EXCEPT !.cannot_assemble = Append(@, e.item)]
                 ELSE lists)

\* urgency_score of assembly_priority (days_of_inventory is in tenths)
UrgencyScore(item) ==
    IF item.available_in_nc < 0 THEN 1000
    ELSE IF item.available_in_nc = 0 THEN 500
    ELSE IF item.days_of_inventory < 5 * 10 THEN 100
    ELSE IF item.days_of_inventory < 15 * 10 THEN 50
    ELSE 10

\* ten times assembly_priority(item): urgency + quantity + 0.1 * max_possible
AssemblyPriority10(item) ==
    10 * UrgencyScore(item) + 10 * item.quantity_for_assembly + item.max_possible_assemblies

\* InsertByPriority that places an item before its equals: ties come out reversed
InsertByPriorityBeforeEquals(sorted, item) ==
    LET notLarger == { i \in 1..Len(sorted) :
                         AssemblyPriority10(sorted[i]) <= AssemblyPriority10(item) }
        pos       == IF notLarger = {} THEN Len(sorted) + 1
                     ELSE CHOOSE i \in notLarger : \A j \in notLarger : i <= j
    IN  SubSeq(sorted, 1, pos - 1) \o <<item>> \o SubSeq(sorted, pos, Len(sorted))

\* list.sort(key=assembly_priority, reverse=True) is stable: an item goes before
\* the first item already placed whose key is strictly smaller
InsertByPriority(sorted, item) ==
    LET smaller == { i \in 1..Len(sorted) :
                       AssemblyPriority10(sorted[i]) < AssemblyPriority10(item) }
        pos     == IF smaller = {} THEN Len(sorted) + 1
                   ELSE CHOOSE i \in smaller : \A j \in smaller : i <= j
    IN  SubSeq(sorted, 1, pos - 1) \o <<item>> \o SubSeq(sorted, pos, Len(sorted))

RECURSIVE SortByPriorityFrom(_, _)
SortByPriorityFrom(items, sorted) ==
    IF items = <<>> THEN sorted
    ELSE SortByPriorityFrom(Tail(items), InsertByPriority(sorted, Head(items)))

SortByPriority(items) == SortByPriorityFrom(items, <<>>)

\* BackfillSales that finds no sales row: every item gets 0
BackfillSalesZero(kpi, cannot) ==
    MapSeq(cannot, LAMBDA item :
        [product_sku |-> item.product_sku,
         product_name |-> item.product_name,
         missing_components |-> item.missing_components,
         component_details |-> item.component_details,
         total_components_required |-> item.total_components_required,
         missing_components_count |-> item.missing_components_count,
         avg_monthly_sales |-> 0])

\* item['avg_monthly_sales'] added to every cannot_assemble item (Scale units)
BackfillSales(kpi, cannot) ==
    MapSeq(cannot, LAMBDA item :
        [product_sku |-> item.product_sku,
         product_name |-> item.product_name,
         missing_components |-> item.missing_components,
         component_details |-> item.component_details,
         total_components_required |-> item.total_components_required,
         missing_components_count |-> item.missing_components_count,
         avg_monthly_sales |-> FirstAvgSales(kpi, item.product_sku)])

(***************************************************************************)
(* analyze_transfer_needs                                                  *)
(***************************************************************************)
\* MainQty that counts oversold primary stock as none
MainQtyNotNegative(avail, sku) ==
    Max(0, SumAvailable(SelectSeq(avail, LAMBDA r : r.SKU = sku /\ r.Location = NCMain)))

\* MainQty that finds no primary-location row
MainQtyIgnored(avail, sku) == 0

\* main_qty: 'Available' summed over the rows of the SKU at 'NC - Main'
MainQty(avail, sku) ==
    SumAvailable(SelectSeq(avail, LAMBDA r : r.SKU = sku /\ r.Location = NCMain))

\* what one pass of the loop over armory_items appends: <<>> or one entry
TransferFor(avail, kpi, item) ==
    LET sku               == item.SKU
        armory_qty        == item.Available
        main_qty          == MainQty(avail, sku)
        avg_monthly_sales == FirstAvgSales(kpi, sku)
    IN  IF armory_qty <= 0 THEN <<>>
        ELSE IF avg_monthly_sales > 0
        THEN IF main_qty * 30 < TARGET_DAYS_INVENTORY * avg_monthly_sales
             THEN LET needed_int == TruncDiv(TARGET_DAYS_INVENTORY * avg_monthly_sales
                                               - 30 * main_qty, 30 * Scale)
                      suggested_transfer == Min(needed_int, TruncDiv(armory_qty, Scale))
                  IN  IF suggested_transfer > 0
                      THEN << [sku |-> sku,
                               product_name |-> item.ProductName,
                               qty_in_armory |-> TruncDiv(armory_qty, Scale),
                               qty_in_main |-> TruncDiv(main_qty, Scale),
                               avg_monthly_sales |-> RoundDiv(avg_monthly_sales * 100, Scale),
                               days_supply_in_main |-> RoundDiv(main_qty * 30 * 10, avg_monthly_sales),
                               suggested_transfer |-> suggested_transfer] >>
                      ELSE <<>>
             ELSE <<>>
        ELSE IF main_qty = 0 /\ armory_qty > 0
             THEN << [sku |-> sku,
                      product_name |-> item.ProductName,
                      qty_in_armory |-> TruncDiv(armory_qty, Scale),
                      qty_in_main |-> TruncDiv(main_qty, Scale),
                      avg_monthly_sales |-> 0,
                      days_supply_in_main |-> 0,
                      suggested_transfer |-> Min(10, TruncDiv(armory_qty, Scale))] >>
             ELSE <<>>

RECURSIVE TransferLoop(_, _, _)
TransferLoop(avail, kpi, armory_items) ==
    IF armory_items = <<>> THEN <<>>
    ELSE TransferFor(avail, kpi, Head(armory_items)) \o TransferLoop(avail, kpi, Tail(armory_items))

\* TransferBefore comparing days_supply_in_main alone
TransferBeforeDaysOnly(a, b) == a.days_supply_in_main < b.days_supply_in_main

\* the sort key (days_supply_in_main, -avg_monthly_sales), ascending
TransferBefore(a, b) ==
    \/ a.days_supply_in_main < b.days_supply_in_main
    \/ /\ a.days_supply_in_main = b.days_supply_in_main
       /\ -a.avg_monthly_sales < -b.avg_monthly_sales

InsertTransfer(sorted, item) ==
    LET later == { i \in 1..Len(sorted) : TransferBefore(item, sorted[i]) }
        pos   == IF later = {} THEN Len(sorted) + 1
                 ELSE CHOOSE i \in later : \A j \in later : i <= j
    IN  SubSeq(sorted, 1, pos - 1) \o <<item>> \o SubSeq(sorted, pos, Len(sorted))

RECURSIVE SortTransfersFrom(_, _)
SortTransfersFrom(items, sorted) ==
    IF items = <<>> THEN sorted
    ELSE SortTransfersFrom(Tail(items), InsertTransfer(sorted, Head(items)))

AnalyzeTransferNeeds(avail, kpi) ==
    SortTransfersFrom(
        TransferLoop(avail, kpi, SelectSeq(avail, LAMBDA r : r.Location = NCArmory)),
        <<>>)

(***************************************************************************)
(* analyze_assembly_capacity, the report                                   *)
(***************************************************************************)
AnalyzeAssemblyCapacity(avail, kpi, bom) ==
    LET lists == EvaluateProducts(avail, kpi, bom, BomProducts(bom), NewLists)
        assembly_ready  == SortByPriority(lists.assembly_ready)
        cannot_assemble == BackfillSales(kpi, lists.cannot_assemble)
    IN  [assembly_ready |-> assembly_ready,
         cannot_assemble |-> cannot_assemble,
         transfer_recommendations |-> AnalyzeTransferNeeds(avail, kpi),
         summary |-> [total_products_analyzed |-> Len(BomProducts(bom)),
                      assembly_ready |-> Len(assembly_ready),
                      cannot_assemble |-> Len(cannot_assemble),
                      transfer_recommendations |-> Len(AnalyzeTransferNeeds(avail, kpi))]]

(***************************************************************************)
(* Input files: the raw tables load_data may read                          *)
(***************************************************************************)
\* an inventory row; the file gives the same figure on hand and available
InvRow(sku, loc, cell) ==
    [SKU |-> sku, Location |-> loc, OnHand |-> cell, Available |-> cell,
     ProductName |-> "Kit"]

\* no row, or one row, from an optional cell (<<>> or <<cell>>)
OptInvRow(sku, loc, opt) == IF opt = <<>> THEN <<>> ELSE <<InvRow(sku, loc, opt[1])>>

OptKpiRow(sku, opt) == IF opt = <<>> THEN <<>> ELSE <<[SKU |-> sku, AvgSales |-> opt[1]]>>

Opt(cells) == {<<>>} \cup { <<c>> : c \in cells }

SeqsUpTo(S, n) == UNION { [1..k -> S] : k \in 0..n }

\* Family A: one product; every BOM of at most MaxBomRows rows over two
\* components and a service item, with unparseable, single and double quantities
BomRowsA ==
    { [ProductSKU |-> P1, ComponentSKU |-> c, Quantity |-> q] :
        c \in {C1, C2, SV1}, q \in {BadCell, Num(Scale), Num(2 * Scale)} }

InputsA ==
    { [availability |-> OptInvRow(P1, NCMain, p) \o OptInvRow(C1, NCMain, c1m)
                        \o OptInvRow(C1, NCArmory, c1a) \o OptInvRow(C2, NCMain, c2),
       kpi |-> OptKpiRow(P1, v),
       bom |-> b] :
        p \in Opt({Num(6 * Scale)}),
        c1m \in Opt({Num(Scale)}),
        c1a \in Opt({Num(6 * Scale)}),
        c2 \in Opt({Num(2 * Scale)}),
        v \in Opt({Num(8 * Scale)}),
        b \in SeqsUpTo(BomRowsA, MaxBomRows) }

\* Family S: the product that needs 2 x C1 and 3 x C2, its sales row under a
\* SKU written as a spreadsheet export writes it
InputsS ==
    { [availability |-> OptInvRow(C1, NCMain, c1m) \o OptInvRow(C1, NCArmory, c1a)
                        \o OptInvRow(C2, NCArmory, c2),
       kpi |-> OptKpiRow(k, v),
       bom |-> << [ProductSKU |-> P1, ComponentSKU |-> C1, Quantity |-> Num(2 * Scale)],
                  [ProductSKU |-> P1, ComponentSKU |-> C2, Quantity |-> Num(3 * Scale)] >>] :
        c1m \in Opt({Num(4 * Scale), Num(10 * Scale)}),
        c1a \in Opt({Num(6 * Scale)}),
        c2 \in Opt({Num(6 * Scale), Num(9 * Scale)}),
        k \in {QuotedP1, SingleQuotedP1},
        v \in Opt({Num(8 * Scale), Num(40 * Scale)}) }

\* Family R: two products built from the same component, in either BOM order,
\* with oversold, fractional, empty and positive stock, small and large figures
StockCellsR == {Num(-Scale), Num(-(Scale \div 2)), Num(0), Num(2 * Scale)}

InputsR ==
    { [availability |-> <<InvRow(P1, NCMain, s1), InvRow(P2, NCMain, s2),
                          InvRow(C1, NCMain, c)>>,
       kpi |-> OptKpiRow(P1, v1) \o OptKpiRow(P2, v2),
       bom |-> IF first = 1
               THEN << [ProductSKU |-> P1, ComponentSKU |-> C1, Quantity |-> Num(Scale)],
                       [ProductSKU |-> P2, ComponentSKU |-> C1, Quantity |-> Num(Scale)] >>
               ELSE << [ProductSKU |-> P2, ComponentSKU |-> C1, Quantity |-> Num(Scale)],
                       [ProductSKU |-> P1, ComponentSKU |-> C1, Quantity |-> Num(Scale)] >>] :
        s1 \in StockCellsR, s2 \in StockCellsR,
        c \in {Num(0), Num(3 * Scale), Num(1000 * Scale)},
        v1 \in Opt({BadCell, Num(3 * Scale)}),
        v2 \in Opt({Num(3 * Scale), Num(900 * Scale)}),
        first \in 1..2 }

\* Family T: two SKUs held at the secondary location, with fractional, small
\* and large secondary stock against oversold, empty and positive primary stock
ArmoryCellsT == {BadCell, Num(Scale \div 2), Num(3 * Scale), Num(12 * Scale)}
MainCellsT == Opt({Num(-Scale), Num(0), Num(4 * Scale)})

InputsT ==
    { [availability |-> <<InvRow(P1, NCArmory, a1)>> \o OptInvRow(P1, NCMain, m1)
                        \o <<InvRow(P2, NCArmory, a2)>> \o OptInvRow(P2, NCMain, m2),
       kpi |-> OptKpiRow(P1, v1) \o OptKpiRow(P2, v2),
       bom |-> << [ProductSKU |-> P1, ComponentSKU |-> P2, Quantity |-> Num(Scale)] >>] :
        a1 \in ArmoryCellsT, a2 \in ArmoryCellsT,
        m1 \in MainCellsT, m2 \in MainCellsT,
        v1 \in Opt({Num(4 * Scale)}),
        v2 \in Opt({Num(4 * Scale), Num(6 * Scale)}) }

\* Family E: one product held at a primary-site location and at the secondary
\* one, 3.5 or 2 units against 4 sales per month, its sales row alone or
\* followed by a second row of the same SKU
InputsE ==
    { [availability |-> <<InvRow(P1, loc, m), InvRow(P1, NCArmory, Num(3 * Scale)),
                          InvRow(C1, NCMain, c)>>,
       kpi |-> OptKpiRow(P1, <<Num(4 * Scale)>>) \o OptKpiRow(P1, dup),
       bom |-> << [ProductSKU |-> P1, ComponentSKU |-> C1, Quantity |-> Num(Scale)] >>] :
        loc \in {NCMain, NCMain2},
        m \in {Num(4 * Scale - Scale \div 2), Num(2 * Scale)},
        c \in {Num(0), Num(6 * Scale)},
        dup \in Opt({Num(40 * Scale)}) }

Inputs == InputsA \cup InputsS \cup InputsR \cup InputsT \cup InputsE

(***************************************************************************)
(* The file cleanup service: FileCleanupManager                            *)
(***************************************************************************)
\* Thread objects start_scheduled_cleanup creates in all
MaxLoopThreads == 2
\* seconds _cleanup_loop sleeps between two run_cleanup calls
SleepSeconds == 2

LoopThreads == 1..MaxLoopThreads

\* the threads that call start_scheduled_cleanup and stop_scheduled_cleanup
Callers == {"a", "b"}

\* self.cleanup_thread = None
NoThread == 0

\* Thread.is_alive(): started and _cleanup_loop has not returned
Alive(t) == loop_pc[t] \in {"while", "run_cleanup", "except", "sleep"}

AliveThreads == {t \in LoopThreads : Alive(t)}

\* Thread objects not created yet
Unborn == {t \in LoopThreads : loop_pc[t] = "unborn"}

\* callers inside start_scheduled_cleanup that have not created their Thread yet
InStart == {c \in Callers : caller_pc[c] \in {"start_check", "start_set", "start_create"}}

\* the Thread object the next threading.Thread(...) call creates
NewThread == CHOOSE t \in Unborn : \A u \in Unborn : t <= u

CleanupInit ==
    /\ running = FALSE
    /\ cleanup_thread = NoThread
    /\ loop_pc = [t \in LoopThreads |-> "unborn"]
    /\ loop_left = [t \in LoopThreads |-> 0]
    /\ caller_pc = [c \in Callers |-> "idle"]

\* a caller enters start_scheduled_cleanup
CallStart(c) ==
    /\ caller_pc[c] = "idle"
    /\ Cardinality(Unborn) > Cardinality(InStart)
    /\ caller_pc' = [caller_pc EXCEPT ![c] = "start_check"]
    /\ UNCHANGED <<running, cleanup_thread, loop_pc, loop_left>>
    /\ UNCHANGED <<procVars, routeVars>>

\* if self.running: warn and return
StartCheck(c) ==
    /\ caller_pc[c] = "start_check"
    /\ caller_pc' = [caller_pc EXCEPT ![c] = IF running THEN "idle" ELSE "start_set"]
    /\ UNCHANGED <<running, cleanup_thread, loop_pc, loop_left>>
    /\ UNCHANGED <<procVars, routeVars>>

\* self.running = True
StartSet(c) ==
    /\ caller_pc[c] = "start_set"
    /\ running' = TRUE
    /\ caller_pc' = [caller_pc EXCEPT ![c] = "start_create"]
    /\ UNCHANGED <<cleanup_thread, loop_pc, loop_left>>
    /\ UNCHANGED <<procVars, routeVars>>

\* self.cleanup_thread = threading.Thread(target=self._cleanup_loop, daemon=True)
StartCreate(c) ==
    /\ caller_pc[c] = "start_create"
    /\ Unborn # {}
    /\ loop_pc' = [loop_pc EXCEPT ![NewThread] = "created"]
    /\ cleanup_thread' = NewThread
    /\ caller_pc' = [caller_pc EXCEPT ![c] = "start_start"]
    /\ UNCHANGED <<running, loop_left>>
    /\ UNCHANGED <<procVars, routeVars>>

\* self.cleanup_thread.start(): the field is read again; starting a Thread
\* a second time raises RuntimeError and starts nothing
StartThread(c) ==
    /\ caller_pc[c] = "start_start"
    /\ loop_pc' = IF loop_pc[cleanup_thread] = "created"
                  THEN [loop_pc EXCEPT ![cleanup_thread] = "while"]
                  ELSE loop_pc
    /\ caller_pc' = [caller_pc EXCEPT ![c] = "idle"]
    /\ UNCHANGED <<running, cleanup_thread, loop_left>>
    /\ UNCHANGED <<procVars, routeVars>>

\* a caller enters stop_scheduled_cleanup
CallStop(c) ==
    /\ caller_pc[c] = "idle"
    /\ caller_pc' = [caller_pc EXCEPT ![c] = "stop_clear"]
    /\ UNCHANGED <<running, cleanup_thread, loop_pc, loop_left>>
    /\ UNCHANGED <<procVars, routeVars>>

\* self.running = False
StopClear(c) ==
    /\ caller_pc[c] = "stop_clear"
    /\ running' = FALSE
    /\ caller_pc' = [caller_pc EXCEPT ![c] = "stop_test"]
    /\ UNCHANGED <<cleanup_thread, loop_pc, loop_left>>
    /\ UNCHANGED <<procVars, routeVars>>

\* if self.cleanup_thread and self.cleanup_thread.is_alive()
StopTest(c) ==
    /\ caller_pc[c] = "stop_test"
    /\ caller_pc' = [caller_pc EXCEPT ![c] =
                        IF cleanup_thread # NoThread /\ Alive(cleanup_thread)
                        THEN "stop_join" ELSE "idle"]
    /\ UNCHANGED <<running, cleanup_thread, loop_pc, loop_left>>
    /\ UNCHANGED <<procVars, routeVars>>

\* self.cleanup_thread.join(timeout=5) returns: the thread has ended, or the
\* five seconds have passed while it is still running
StopJoin(c) ==
    /\ caller_pc[c] = "stop_join"
    /\ caller_pc' = [caller_pc EXCEPT ![c] = "idle"]
    /\ UNCHANGED <<running, cleanup_thread, loop_pc, loop_left>>
    /\ UNCHANGED <<procVars, routeVars>>

\* while self.running
LoopTest(t) ==
    /\ loop_pc[t] = "while"
    /\ loop_pc' = [loop_pc EXCEPT ![t] = IF running THEN "run_cleanup" ELSE "dead"]
    /\ UNCHANGED <<running, cleanup_thread, loop_left, caller_pc>>
    /\ UNCHANGED <<procVars, routeVars>>

\* self.run_cleanup() returns
RunCleanupReturns(t) ==
    /\ loop_pc[t] = "run_cleanup"
    /\ loop_pc' = [loop_pc EXCEPT ![t] = "sleep"]
    /\ loop_left' = [loop_left EXCEPT ![t] = SleepSeconds]
    /\ UNCHANGED <<running, cleanup_thread, caller_pc>>
    /\ UNCHANGED <<procVars, routeVars>>

\* self.run_cleanup() raises an Exception
RunCleanupRaises(t) ==
    /\ loop_pc[t] = "run_cleanup"
    /\ loop_pc' = [loop_pc EXCEPT ![t] = "except"]
    /\ UNCHANGED <<running, cleanup_thread, loop_left, caller_pc>>
    /\ UNCHANGED <<procVars, routeVars>>

\* a loop that lets the exception of run_cleanup end the thread
AfterExceptionEndsThread == "dead"

\* where _cleanup_loop goes on after its except clause: the sleep below it
AfterException == "sleep"

\* except Exception as e: self.log_error(...)
LoopExcept(t) ==
    /\ loop_pc[t] = "except"
    /\ loop_pc' = [loop_pc EXCEPT ![t] = AfterException]
    /\ loop_left' = [loop_left EXCEPT ![t] = SleepSeconds]
    /\ UNCHANGED <<running, cleanup_thread, caller_pc>>
    /\ UNCHANGED <<procVars, routeVars>>

\* one round of: for _ in range(sleep_seconds): if not self.running: break; time.sleep(1)
SleepTick(t) ==
    /\ loop_pc[t] = "sleep"
    /\ IF loop_left[t] = 0 \/ ~running
       THEN /\ loop_pc' = [loop_pc EXCEPT ![t] = "while"]
            /\ loop_left' = [loop_left EXCEPT ![t] = 0]
       ELSE /\ loop_left' = [loop_left EXCEPT ![t] = loop_left[t] - 1]
            /\ UNCHANGED loop_pc
    /\ UNCHANGED <<running, cleanup_thread, caller_pc>>
    /\ UNCHANGED <<procVars, routeVars>>

\* one step of the thread running _cleanup_loop
LoopStep(t) ==
    LoopTest(t) \/ RunCleanupReturns(t) \/ RunCleanupRaises(t) \/ LoopExcept(t) \/ SleepTick(t)

(***************************************************************************)
(* The upload route: process_assembly_files                                *)
(***************************************************************************)
\* file_specs, in order
FileSpecs == <<"availability", "replenishment", "bom">>

FileKeys == {FileSpecs[i] : i \in 1..Len(FileSpecs)}

\* error codes of the FileValidationError that validate_upload raises
ValidationFailures == {"UNSUPPORTED_FILE_TYPE", "FILE_SIZE_EXCEEDED"}

\* what the request holds for one file key
UploadStates == {"missing", "ok"} \cup ValidationFailures

NoResponse == [status |-> 0, error_code |-> "none"]

RouteInit ==
    /\ route_pc = "idle"
    /\ uploads = [k \in FileKeys |-> "missing"]
    /\ validated_files = <<>>
    /\ temp_files = <<>>
    /\ written = {}
    /\ disk = {}
    /\ cleaned = 0
    /\ removal_failed = {}
    /\ response = NoResponse
    /\ processor_invoked = FALSE
    /\ alerts_sent = 0

\* the request arrives; temp_files = []
Receive ==
    /\ route_pc = "idle"
    /\ uploads' \in [FileKeys -> UploadStates]
    /\ route_pc' = "validate"
    /\ UNCHANGED <<validated_files, temp_files, written, disk, cleaned, removal_failed,
                   response, processor_invoked, alerts_sent>>
    /\ UNCHANGED <<procVars, cleanupVars>>

\* the file key the validation loop is at
KeyToValidate == FileSpecs[Len(validated_files) + 1]

\* the error code of an exception kept as it was raised
OriginalErrorCode(code) == code

\* raise ValidationError(...): the error code of the exception that replaces
\* the one validate_upload raised
WrappedErrorCode(code) == "VALIDATION_ERROR"

\* except ValidationError: 400 and e.error_code, no alert; then the finally clause
ValidationErrorResponse(code) ==
    /\ response' = [status |-> 400, error_code |-> code]
    /\ route_pc' = "finally"
    /\ UNCHANGED <<alerts_sent>>

\* except Exception: send_error_alert, 500 and UNEXPECTED_ERROR; then the finally clause
UnexpectedErrorResponse ==
    /\ response' = [status |-> 500, error_code |-> "UNEXPECTED_ERROR"]
    /\ alerts_sent' = alerts_sent + 1
    /\ route_pc' = "finally"

\* if not file_storage or not file_storage.filename: raise ValidationError
ValidateMissing ==
    /\ route_pc = "validate"
    /\ uploads[KeyToValidate] = "missing"
    /\ ValidationErrorResponse("VALIDATION_ERROR")
    /\ UNCHANGED <<uploads, validated_files, temp_files, written, disk, cleaned,
                   removal_failed, processor_invoked>>
    /\ UNCHANGED <<procVars, cleanupVars>>

\* validate_upload raises; except Exception: raise ValidationError
ValidateFails ==
    /\ route_pc = "validate"
    /\ uploads[KeyToValidate] \in ValidationFailures
    /\ ValidationErrorResponse(WrappedErrorCode(uploads[KeyToValidate]))
    /\ UNCHANGED <<uploads, validated_files, temp_files, written, disk, cleaned,
                   removal_failed, processor_invoked>>
    /\ UNCHANGED <<procVars, cleanupVars>>

\* validate_upload passes: validated_files[file_key] = {...}
ValidatePasses ==
    /\ route_pc = "validate"
    /\ uploads[KeyToValidate] = "ok"
    /\ validated_files' = Append(validated_files, KeyToValidate)
    /\ route_pc' = IF Len(validated_files') = Len(FileSpecs) THEN "makedirs" ELSE "validate"
    /\ UNCHANGED <<uploads, temp_files, written, disk, cleaned, removal_failed,
                   response, processor_invoked, alerts_sent>>
    /\ UNCHANGED <<procVars, cleanupVars>>

\* os.makedirs(upload_dir, exist_ok=True)
MakeDirs ==
    /\ route_pc = "makedirs"
    /\ route_pc' = "save"
    /\ UNCHANGED <<uploads, validated_files, temp_files, written, disk, cleaned,
                   removal_failed, response, processor_invoked, alerts_sent>>
    /\ UNCHANGED <<procVars, cleanupVars>>

\* os.makedirs raises
MakeDirsRaises ==
    /\ route_pc = "makedirs"
    /\ UnexpectedErrorResponse
    /\ UNCHANGED <<uploads, validated_files, temp_files, written, disk, cleaned,
                   removal_failed, processor_invoked>>
    /\ UNCHANGED <<procVars, cleanupVars>>

\* the file key the save loop is at: validated_files.items() in insertion order
KeyToSave == validated_files[Len(temp_files) + 1]

\* file_storage.save(file_path) returns; temp_files.append(file_path)
SaveFile ==
    /\ route_pc = "save"
    /\ disk' = disk \cup {KeyToSave}
    /\ written' = written \cup {KeyToSave}
    /\ temp_files' = Append(temp_files, KeyToSave)
    /\ route_pc' = IF Len(temp_files') = Len(validated_files) THEN "process" ELSE "save"
    /\ UNCHANGED <<uploads, validated_files, cleaned, removal_failed, response,
                   processor_invoked, alerts_sent>>
    /\ UNCHANGED <<procVars, cleanupVars>>

\* file_storage.save(file_path) raises, before or after it created the file
SaveFileRaises ==
    /\ route_pc = "save"
    /\ disk' \in {disk, disk \cup {KeyToSave}}
    /\ UnexpectedErrorResponse
    /\ UNCHANGED <<uploads, validated_files, temp_files, written, cleaned,
                   removal_failed, processor_invoked>>
    /\ UNCHANGED <<procVars, cleanupVars>>

\* AssemblyProcessor().generate_reports(...) returns; return jsonify(results)
Process ==
    /\ route_pc = "process"
    /\ processor_invoked' = TRUE
    /\ response' = [status |-> 200, error_code |-> "none"]
    /\ route_pc' = "finally"
    /\ UNCHANGED <<uploads, validated_files, temp_files, written, disk, cleaned,
                   removal_failed, alerts_sent>>
    /\ UNCHANGED <<procVars, cleanupVars>>

\* generate_reports raises; raise DataProcessingError;
\* except DataProcessingError: send_error_alert, 500 and e.error_code
ProcessRaises ==
    /\ route_pc = "process"
    /\ processor_invoked' = TRUE
    /\ response' = [status |-> 500, error_code |-> "DATA_PROCESSING_ERROR"]
    /\ alerts_sent' = alerts_sent + 1
    /\ route_pc' = "finally"
    /\ UNCHANGED <<uploads, validated_files, temp_files, written, disk, cleaned,
                   removal_failed>>
    /\ UNCHANGED <<procVars, cleanupVars>>

\* the file the loop of the finally clause is at
FileToRemove == temp_files[cleaned + 1]

\* a finally clause whose loop ends at the first removal that fails
AfterRemoveFailureStop(done, all) == all

\* except Exception as cleanup_error: log a warning; the loop goes on with the next file
AfterRemoveFailure(done, all) == done + 1

\* if os.path.exists(temp_file): os.remove(temp_file)
RemoveFile ==
    /\ route_pc = "finally"
    /\ cleaned < Len(temp_files)
    /\ disk' = disk \ {FileToRemove}
    /\ cleaned' = cleaned + 1
    /\ UNCHANGED <<route_pc, uploads, validated_files, temp_files, written,
                   removal_failed, response, processor_invoked, alerts_sent>>
    /\ UNCHANGED <<procVars, cleanupVars>>

\* os.remove(temp_file) raises
RemoveFileRaises ==
    /\ route_pc = "finally"
    /\ cleaned < Len(temp_files)
    /\ FileToRemove \in disk
    /\ removal_failed' = removal_failed \cup {FileToRemove}
    /\ cleaned' = AfterRemoveFailure(cleaned, Len(temp_files))
    /\ UNCHANGED <<route_pc, uploads, validated_files, temp_files, written, disk,
                   response, processor_invoked, alerts_sent>>
    /\ UNCHANGED <<procVars, cleanupVars>>

\* the finally clause is done: the response is returned
Return ==
    /\ route_pc = "finally"
    /\ cleaned = Len(temp_files)
    /\ route_pc' = "returned"
    /\ UNCHANGED <<uploads, validated_files, temp_files, written, disk, cleaned,
                   removal_failed, response, processor_invoked, alerts_sent>>
    /\ UNCHANGED <<procVars, cleanupVars>>

(***************************************************************************)
(* The processor                                                           *)
(***************************************************************************)
NoValue == [none |-> TRUE]

\* no file read yet
NoFiles == [availability |-> <<>>, kpi |-> <<>>, bom |-> <<>>]

Init ==
    /\ loaded = FALSE
    /\ files = NoFiles
    /\ availability_df = <<>>
    /\ kpi_df = <<>>
    /\ bom_df = <<>>
    /\ debug_mode \in BOOLEAN
    /\ last_call = "none"
    /\ returned = NoValue
    /\ fields_read = {}
    /\ runs = 0
    /\ CleanupInit
    /\ RouteInit

\* load_data: read the three files, then _clean_data
LoadData ==
    /\ ~loaded
    /\ \E in \in Inputs :
        /\ files' = in
        /\ availability_df' = CleanAvailability(in.availability)
        /\ kpi_df' = CleanKpi(in.kpi)
        /\ bom_df' = CleanBom(in.bom)
    /\ loaded' = TRUE
    /\ UNCHANGED <<debug_mode, last_call, returned, fields_read, runs>>
    /\ UNCHANGED <<cleanupVars, routeVars>>

\* the fields of self that analyze_assembly_capacity reads
AssemblyCapacityReads ==
    {"bom_df", "availability_df", "kpi_df", "debug_mode", "TARGET_DAYS_INVENTORY"}

\* the fields of self that analyze_transfer_needs reads
TransferNeedsReads == {"availability_df", "kpi_df", "TARGET_DAYS_INVENTORY"}

\* TablesAfterAnalysis with the pre-filtered tables assigned back to self
TablesAfterAnalysisFiltered(avail, kpi, bom) ==
    [availability_df |-> AvailabilityFiltered(avail, bom),
     kpi_df |-> KpiFiltered(kpi, bom),
     bom_df |-> bom]

\* the tables as an analysis leaves them: it only selects from them
TablesAfterAnalysis(avail, kpi, bom) ==
    [availability_df |-> avail, kpi_df |-> kpi, bom_df |-> bom]

AnalyzeCapacity ==
    /\ loaded
    /\ runs < MaxRuns
    /\ runs' = runs + 1
    /\ returned' = AnalyzeAssemblyCapacity(availability_df, kpi_df, bom_df)
    /\ last_call' = "analyze_assembly_capacity"
    /\ fields_read' = AssemblyCapacityReads
    /\ availability_df' = TablesAfterAnalysis(availability_df, kpi_df, bom_df).availability_df
    /\ kpi_df' = TablesAfterAnalysis(availability_df, kpi_df, bom_df).kpi_df
    /\ bom_df' = TablesAfterAnalysis(availability_df, kpi_df, bom_df).bom_df
    /\ UNCHANGED <<loaded, files, debug_mode>>
    /\ UNCHANGED <<cleanupVars, routeVars>>

TransferNeeds ==
    /\ loaded
    /\ runs' = 0
    /\ returned' = AnalyzeTransferNeeds(availability_df, kpi_df)
    /\ last_call' = "analyze_transfer_needs"
    /\ fields_read' = TransferNeedsReads
    /\ availability_df' = TablesAfterAnalysis(availability_df, kpi_df, bom_df).availability_df
    /\ kpi_df' = TablesAfterAnalysis(availability_df, kpi_df, bom_df).kpi_df
    /\ bom_df' = TablesAfterAnalysis(availability_df, kpi_df, bom_df).bom_df
    /\ UNCHANGED <<loaded, files, debug_mode>>
    /\ UNCHANGED <<cleanupVars, routeVars>>

Next == LoadData \/ AnalyzeCapacity \/ TransferNeeds

Spec == Init /\ [][Next]_vars

\* the cleanup service: callers and loop threads interleave step by step
NextCleanup ==
    \/ \E c \in Callers :
        \/ CallStart(c) \/ StartCheck(c) \/ StartSet(c) \/ StartCreate(c) \/ StartThread(c)
        \/ CallStop(c) \/ StopClear(c) \/ StopTest(c) \/ StopJoin(c)
    \/ \E t \in LoopThreads :
        \/ LoopTest(t) \/ RunCleanupReturns(t) \/ RunCleanupRaises(t)
        \/ LoopExcept(t) \/ SleepTick(t)

\* every started thread is scheduled again and again, and run_cleanup ends
SpecCleanup == Init /\ [][NextCleanup]_vars /\ \A t \in LoopThreads : WF_vars(LoopStep(t))

\* one request to process_assembly_files
NextRoute ==
    \/ Receive
    \/ ValidateMissing \/ ValidateFails \/ ValidatePasses
    \/ MakeDirs \/ MakeDirsRaises
    \/ SaveFile \/ SaveFileRaises
    \/ Process \/ ProcessRaises
    \/ RemoveFile \/ RemoveFileRaises
    \/ Return

SpecRoute == Init /\ [][NextRoute]_vars

(***************************************************************************)
(* Properties                                                              *)
(***************************************************************************)
HasReport == last_call = "analyze_assembly_capacity"

Range(s) == { s[i] : i \in 1..Len(s) }

ReadyItems == IF HasReport THEN Range(returned.assembly_ready) ELSE {}

CannotItems == IF HasReport THEN Range(returned.cannot_assemble) ELSE {}

\* the transfer list of the last call, from either method
TransferItems ==
    IF HasReport THEN Range(returned.transfer_recommendations)
    ELSE IF last_call = "analyze_transfer_needs" THEN Range(returned)
    ELSE {}

\* C1: every entry of assembly_ready has
\* 1 <= quantity_for_assembly <= max_possible_assemblies.
C1_QuantityWithinBuildable ==
    \A e \in ReadyItems :
        /\ 1 <= e.quantity_for_assembly
        /\ e.quantity_for_assembly <= e.max_possible_assemblies

\* a ready product whose need exceeds what can be built, so that the cap decides
C1_Witness ==
    \E e \in ReadyItems :
        /\ e.quantity_for_assembly = e.max_possible_assemblies
        /\ TruncDiv(TARGET_DAYS_INVENTORY
                      * EffectiveSales(FirstAvgSales(kpi_df, e.product_sku))
                    - 30 * CurrentStock(availability_df, bom_df, e.product_sku),
                    30 * Scale) > e.max_possible_assemblies

\* C2: every entry of cannot_assemble lists at least one component, and each
\* listed component is short: available < required, shortage = required -
\* available > 0, with the figures those of the inventory table.
C2_CannotAssembleHasShortage ==
    \A e \in CannotItems :
        /\ e.missing_components_count >= 1
        /\ e.missing_components_count = Len(e.component_details)
        /\ \A d \in Range(e.component_details) :
            /\ d.available < d.required
            /\ d.shortage = d.required - d.available
            /\ d.shortage > 0
            /\ d.available = SumAvailable(SelectSeq(availability_df, LAMBDA r : r.SKU = d.sku))

\* a blocked product with one component short and another sufficient
C2_Witness ==
    \E e \in CannotItems :
        /\ e.missing_components_count = 1
        /\ e.total_components_required = 2

\* C3: every transfer entry has 0 < suggested_transfer <= qty_in_armory.
C3_TransferWithinSecondaryStock ==
    \A t \in TransferItems :
        /\ 0 < t.suggested_transfer
        /\ t.suggested_transfer <= t.qty_in_armory

\* primary-location stock of a SKU, from the inventory table
PrimaryStock(sku) ==
    SumAvailable(SelectSeq(availability_df,
                           LAMBDA r : r.SKU = sku /\ Contains(r.Location, NC)
                                                  /\ Contains(r.Location, Main)))

\* C4: in assembly_ready a candidate with negative primary stock (reported
\* as available_in_nc < 0) stands before every candidate with primary stock 0,
\* whatever their quantity_for_assembly and max_possible_assemblies.
C4_NegativeStockBeforeZeroStock ==
    HasReport =>
        \A i, j \in 1..Len(returned.assembly_ready) :
            ( /\ PrimaryStock(returned.assembly_ready[i].product_sku) < 0
              /\ returned.assembly_ready[i].available_in_nc < 0
              /\ PrimaryStock(returned.assembly_ready[j].product_sku) = 0 ) => i < j

TableFields == {"availability_df", "kpi_df", "bom_df"}

\* C6 as amended: an analysis leaves the three tables and every other field of
\* the processor as they were, and reads only the three tables,
\* TARGET_DAYS_INVENTORY and debug_mode.
C6_TablesUntouchedReadsKnown ==
    [][ loaded =>
          /\ availability_df' = availability_df
          /\ kpi_df' = kpi_df
          /\ bom_df' = bom_df
          /\ debug_mode' = debug_mode
          /\ loaded' = loaded
          /\ fields_read' \subseteq TableFields \cup {"TARGET_DAYS_INVENTORY", "debug_mode"} ]_vars

\* C6 as claimed: an analysis leaves the three tables unchanged and reads only
\* the three tables and TARGET_DAYS_INVENTORY.
C6_OnlyTablesAndTargetRead ==
    [][ loaded =>
          /\ availability_df' = availability_df
          /\ kpi_df' = kpi_df
          /\ bom_df' = bom_df
          /\ fields_read' \subseteq TableFields \cup {"TARGET_DAYS_INVENTORY"} ]_vars

\* both analyses have run over tables that hold component rows
C6_Witness ==
    /\ last_call = "analyze_transfer_needs"
    /\ \E r \in Range(availability_df) : ~InSeq(r.SKU, BomProducts(bom_df))
    /\ bom_df # <<>>
    /\ kpi_df # <<>>

RECURSIVE SumQuantity(_)
SumQuantity(rows) ==
    IF rows = <<>> THEN 0 ELSE Head(rows).Quantity + SumQuantity(Tail(rows))

\* the stock-checked components of a product, read off the BOM table
ExpectedComponents(product_sku) ==
    { r.ComponentSKU : r \in { x \in Range(bom_df) :
                                 /\ x.ProductSKU = product_sku
                                 /\ x.Quantity > 0
                                 /\ ~StartsWith(x.ComponentSKU, ServicePrefix) } }

\* the aggregated required quantity of a component for a product
ExpectedRequired(product_sku, component_sku) ==
    SumQuantity(SelectSeq(bom_df, LAMBDA r : /\ r.ProductSKU = product_sku
                                             /\ r.ComponentSKU = component_sku
                                             /\ r.Quantity > 0))

\* the available quantity of a SKU summed over all locations
ExpectedAvailable(sku) == SumAvailable(SelectSeq(availability_df, LAMBDA r : r.SKU = sku))

\* floor(available / required) of every stock-checked component of a product
ExpectedFloors(product_sku) ==
    { ExpectedAvailable(c) \div ExpectedRequired(product_sku, c) :
        c \in ExpectedComponents(product_sku) }

\* C7: max_possible_assemblies of every ready candidate is the least, over
\* its required components, of floor(total available / aggregated required).
C7_MaxIsMinOfFloors ==
    \A e \in ReadyItems :
        /\ e.max_possible_assemblies \in ExpectedFloors(e.product_sku)
        /\ \A f \in ExpectedFloors(e.product_sku) : e.max_possible_assemblies <= f

\* 2 x C1 and 3 x C2 required, 10 C1 (over two locations) and 6 C2 available: 2
C7_Witness ==
    \E e \in ReadyItems :
        /\ e.product_sku = P1
        /\ ExpectedComponents(P1) = {C1, C2}
        /\ ExpectedRequired(P1, C1) = 2 * Scale
        /\ ExpectedRequired(P1, C2) = 3 * Scale
        /\ ExpectedAvailable(C1) = 10 * Scale
        /\ ExpectedAvailable(C2) = 6 * Scale
        /\ \E r \in Range(availability_df) : r.SKU = C1 /\ r.Location = NCArmory
        /\ e.max_possible_assemblies = 2

\* the BOM table without its service rows
WithoutServiceRows(bom) ==
    SelectSeq(bom, LAMBDA r : ~StartsWith(r.ComponentSKU, ServicePrefix))

\* C8: the report of a BOM table and the report of the same table without
\* its service rows hold the same assembly_ready entries and the same
\* cannot_assemble entries, field for field.
C8_ServiceRowsIgnored ==
    HasReport =>
        LET other == AnalyzeAssemblyCapacity(availability_df, kpi_df,
                                             WithoutServiceRows(bom_df))
        IN  /\ Range(returned.assembly_ready) = Range(other.assembly_ready)
            /\ Range(returned.cannot_assemble) = Range(other.cannot_assemble)

\* a ready product whose BOM has a service row of positive quantity, the
\* service item being out of stock
C8_Witness ==
    \E e \in ReadyItems :
        \E r \in Range(bom_df) :
            /\ r.ProductSKU = e.product_sku
            /\ StartsWith(r.ComponentSKU, ServicePrefix)
            /\ r.Quantity > 0
            /\ ExpectedAvailable(r.ComponentSKU) < r.Quantity

\* C9: a product whose every BOM row is filtered out (service component or
\* quantity not positive) is in neither assembly_ready nor cannot_assemble.
C9_NoUsableRowsExcluded ==
    HasReport =>
        \A p \in Range(BomProducts(bom_df)) :
            ExpectedComponents(p) = {} =>
                /\ \A e \in ReadyItems : e.product_sku # p
                /\ \A e \in CannotItems : e.product_sku # p

\* a product that needs assembly (no sales, no stock) with service rows only
C9_Witness ==
    /\ HasReport
    /\ \E p \in Range(BomProducts(bom_df)) :
        /\ ExpectedComponents(p) = {}
        /\ \E r \in Range(bom_df) : r.ProductSKU = p /\ r.Quantity > 0
        /\ PrimaryStock(p) = 0
        /\ \A k \in Range(kpi_df) : k.SKU # p

\* no positive sales figure for the SKU: no sales row, or a first row of 0
NoSalesData(sku) ==
    \/ \A k \in Range(kpi_df) : k.SKU # sku
    \/ \E i \in 1..Len(kpi_df) :
        /\ kpi_df[i].SKU = sku
        /\ kpi_df[i].AvgSales = 0
        /\ \A j \in 1..(i - 1) : kpi_df[j].SKU # sku

\* every stock-checked component is available in the required quantity
FullySatisfiable(product_sku) ==
    /\ ExpectedComponents(product_sku) # {}
    /\ \A c \in ExpectedComponents(product_sku) :
        ExpectedAvailable(c) >= ExpectedRequired(product_sku, c)

\* C10: a BOM product with no sales data, primary stock 0 and a fully
\* satisfiable BOM is in assembly_ready, with quantity_for_assembly <= 10 and
\* quantity_for_assembly <= max_possible_assemblies.
C10_NoSalesZeroStockEmitted ==
    HasReport =>
        \A p \in Range(BomProducts(bom_df)) :
            ( NoSalesData(p) /\ PrimaryStock(p) = 0 /\ FullySatisfiable(p) ) =>
                \E e \in ReadyItems :
                    /\ e.product_sku = p
                    /\ e.quantity_for_assembly <= 10
                    /\ e.quantity_for_assembly <= e.max_possible_assemblies

\* such a product, with room to build more than ten
C10_Witness ==
    /\ HasReport
    /\ \E e \in ReadyItems :
        /\ NoSalesData(e.product_sku)
        /\ PrimaryStock(e.product_sku) = 0
        /\ FullySatisfiable(e.product_sku)
        /\ e.max_possible_assemblies > 10

\* the SKUs that have a row at the secondary location
SecondarySKUs == { r.SKU : r \in { x \in Range(availability_df) : x.Location = NCArmory } }

\* stock of a SKU in the rows of 'NC - Main', from the inventory table
StockAtMain(sku) ==
    SumAvailable(SelectSeq(availability_df, LAMBDA r : r.SKU = sku /\ r.Location = NCMain))

\* C11: after an analysis, no transfer entry names a secondary-location SKU
\* whose sales velocity is positive and whose days of supply at the primary
\* location, primary stock / (monthly sales / 30), are 30 or more.
C11_NoTransferWhenSupplied ==
    \A sku \in SecondarySKUs :
        ( /\ FirstAvgSales(kpi_df, sku) > 0
          /\ StockAtMain(sku) * 30 >= 30 * FirstAvgSales(kpi_df, sku) ) =>
            \A t \in TransferItems : t.sku # sku

\* a SKU with exactly 30 days of supply at the primary location and 12 units
\* at the secondary one, after analyze_transfer_needs
C11_Witness ==
    /\ last_call = "analyze_transfer_needs"
    /\ \E r \in Range(availability_df) :
        /\ r.Location = NCArmory
        /\ r.Available = 12 * Scale
        /\ FirstAvgSales(kpi_df, r.SKU) > 0
        /\ StockAtMain(r.SKU) * 30 = 30 * FirstAvgSales(kpi_df, r.SKU)
        /\ \A t \in Range(returned) : t.sku # r.SKU

\* the BOM row in which a product SKU first appears
FirstBomRow(product_sku) ==
    CHOOSE i \in 1..Len(bom_df) :
        /\ bom_df[i].ProductSKU = product_sku
        /\ \A j \in 1..(i - 1) : bom_df[j].ProductSKU # product_sku

\* every cannot_assemble item carries avg_monthly_sales, the first sales
\* figure of its product or 0
CannotItemsCarrySales ==
    \A e \in CannotItems :
        /\ "avg_monthly_sales" \in DOMAIN e
        /\ e.avg_monthly_sales = FirstAvgSales(kpi_df, e.product_sku)

\* C12 as amended: in the report of analyze_assembly_capacity every
\* cannot_assemble item carries avg_monthly_sales, and the list stands in the
\* order in which the products first appear in the BOM table.
C12_CannotAssembleSalesInBomOrder ==
    HasReport =>
        /\ CannotItemsCarrySales
        /\ \A i, j \in 1..Len(returned.cannot_assemble) :
            i < j => FirstBomRow(returned.cannot_assemble[i].product_sku)
                       < FirstBomRow(returned.cannot_assemble[j].product_sku)

\* C12 as claimed: in the report of analyze_assembly_capacity every
\* cannot_assemble item carries avg_monthly_sales, and the list is ordered by
\* descending avg_monthly_sales.
C12_CannotAssembleDescendingSales ==
    HasReport =>
        /\ CannotItemsCarrySales
        /\ \A i, j \in 1..Len(returned.cannot_assemble) :
            i < j => returned.cannot_assemble[i].avg_monthly_sales
                       >= returned.cannot_assemble[j].avg_monthly_sales

\* two blocked products, the one that sells less first in the BOM table
C12_Witness ==
    /\ HasReport
    /\ Len(returned.cannot_assemble) = 2
    /\ 0 < returned.cannot_assemble[1].avg_monthly_sales
    /\ returned.cannot_assemble[1].avg_monthly_sales
         < returned.cannot_assemble[2].avg_monthly_sales

\* the transfer list of the last call, from either method, in its order
TransferList ==
    IF HasReport THEN returned.transfer_recommendations
    ELSE IF last_call = "analyze_transfer_needs" THEN returned
    ELSE <<>>

\* C13: the transfer list is in ascending order of days_supply_in_main, and
\* entries of equal days_supply_in_main are in descending order of
\* avg_monthly_sales.
C13_TransfersSortedByDaysThenSales ==
    \A i, j \in 1..Len(TransferList) :
        i < j =>
            \/ TransferList[i].days_supply_in_main < TransferList[j].days_supply_in_main
            \/ /\ TransferList[i].days_supply_in_main = TransferList[j].days_supply_in_main
               /\ TransferList[i].avg_monthly_sales >= TransferList[j].avg_monthly_sales

\* two entries of equal days of supply: the better-selling SKU, whose row is
\* the later one in the inventory table, was moved to the front
C13_Witness ==
    /\ last_call = "analyze_transfer_needs"
    /\ Len(returned) = 2
    /\ returned[1].days_supply_in_main = returned[2].days_supply_in_main
    /\ returned[1].avg_monthly_sales > returned[2].avg_monthly_sales
    /\ returned[2].avg_monthly_sales > 0
    /\ \E i, j \in 1..Len(availability_df) :
        /\ i < j
        /\ availability_df[i].Location = NCArmory
        /\ availability_df[i].SKU = returned[2].sku
        /\ availability_df[j].Location = NCArmory
        /\ availability_df[j].SKU = returned[1].sku

\* C14: in every report the summary counts are the lengths of the three
\* lists, total_products_analyzed is the number of distinct product SKUs of the
\* BOM table, and assembly_ready + cannot_assemble <= total_products_analyzed.
C14_SummaryAgreesWithLists ==
    HasReport =>
        /\ returned.summary.assembly_ready = Len(returned.assembly_ready)
        /\ returned.summary.cannot_assemble = Len(returned.cannot_assemble)
        /\ returned.summary.transfer_recommendations = Len(returned.transfer_recommendations)
        /\ returned.summary.total_products_analyzed
             = Cardinality({ r.ProductSKU : r \in Range(bom_df) })
        /\ returned.summary.assembly_ready + returned.summary.cannot_assemble
             <= returned.summary.total_products_analyzed

\* a report with one BOM product, ready, and two transfer entries
C14_Witness ==
    /\ HasReport
    /\ returned.summary.assembly_ready = 1
    /\ returned.summary.transfer_recommendations = 2
    /\ returned.summary.total_products_analyzed = 1

\* the SKUs as the inventory and BOM tables write them
PlainSKUs == {P1, P2, C1, C2}

\* raw is sku behind an equals sign and between double or single quotes
IsEncodingOf(raw, sku) == \E q \in {"\"", "'"} : raw = <<"=", q>> \o sku \o <<q>>

\* C15: a sales row whose SKU the file writes as ="X" or ='X' is held under
\* X after load_data, and when it is the first sales row of a BOM product X the
\* analysis reports X with the sales figure of that row.
C15_EncodedSkuJoins ==
    loaded =>
        \A i \in 1..Len(files.kpi) : \A sku \in PlainSKUs :
            IsEncodingOf(files.kpi[i].SKU, sku) =>
                /\ kpi_df[i].SKU = sku
                /\ (\A j \in 1..(i - 1) : kpi_df[j].SKU # sku) =>
                    LET sales == ToNumericFillZero(files.kpi[i].AvgSales)
                    IN  /\ \A e \in ReadyItems : e.product_sku = sku =>
                              e.avg_monthly_sales = IF sales > 0 THEN (sales * 100) \div Scale
                                                    ELSE 100
                        /\ \A e \in CannotItems : e.product_sku = sku =>
                              e.avg_monthly_sales = sales

\* the sales file names the product ="P1", the BOM names it P1, and the
\* report has it ready with its 40 sales per month
C15_Witness ==
    /\ \E i \in 1..Len(files.kpi) : files.kpi[i].SKU = QuotedP1
    /\ \E e \in ReadyItems : e.product_sku = P1 /\ e.avg_monthly_sales = 40 * 100

\* the number a raw cell stands for, 0 for a cell that does not parse
CellOrZero(cell) == IF cell.num THEN cell.val ELSE 0

\* the rows of a raw table whose cell in a numeric column does not parse
BadRows(table, column) == { i \in 1..Len(table) : ~table[i][column].num }

\* C16: after load_data each table has the rows of its file in the same
\* order; every cell of a numeric column holds its number, or 0 where the
\* file's cell does not parse; and the text columns of the inventory and BOM
\* tables are as in the file.
C16_UnparseableCellBecomesZero ==
    loaded =>
        /\ Len(availability_df) = Len(files.availability)
        /\ \A i \in 1..Len(availability_df) :
            /\ availability_df[i].OnHand = CellOrZero(files.availability[i].OnHand)
            /\ availability_df[i].Available = CellOrZero(files.availability[i].Available)
            /\ availability_df[i].SKU = files.availability[i].SKU
            /\ availability_df[i].Location = files.availability[i].Location
            /\ availability_df[i].ProductName = files.availability[i].ProductName
        /\ Len(kpi_df) = Len(files.kpi)
        /\ \A i \in 1..Len(kpi_df) : kpi_df[i].AvgSales = CellOrZero(files.kpi[i].AvgSales)
        /\ Len(bom_df) = Len(files.bom)
        /\ \A i \in 1..Len(bom_df) :
            /\ bom_df[i].Quantity = CellOrZero(files.bom[i].Quantity)
            /\ bom_df[i].ProductSKU = files.bom[i].ProductSKU
            /\ bom_df[i].ComponentSKU = files.bom[i].ComponentSKU

\* a file set with a single unparseable cell, a BOM quantity, whose analysis
\* returned a report with the product ready on its other BOM row
C16_Witness ==
    /\ HasReport
    /\ Cardinality(BadRows(files.bom, "Quantity")) = 1
    /\ BadRows(files.availability, "Available") = {}
    /\ BadRows(files.kpi, "AvgSales") = {}
    /\ Len(bom_df) = 2
    /\ ReadyItems # {}

\* ceil(n / d) for d > 0
CeilDiv(n, d) == -((-n) \div d)

\* C17: a ready product with a positive sales figure has
\* quantity_for_assembly = min(max(1, ceil(30 * daily_sales - current_stock)),
\* max_possible_assemblies), daily_sales being avg_monthly_sales / 30.
C17_QuantityIsCeilingOfNeed ==
    \A e \in ReadyItems :
        FirstAvgSales(kpi_df, e.product_sku) > 0 =>
            e.quantity_for_assembly
              = Min(Max(1, CeilDiv(30 * FirstAvgSales(kpi_df, e.product_sku)
                                     - 30 * PrimaryStock(e.product_sku), 30 * Scale)),
                    e.max_possible_assemblies)

\* C18: a ready product that has no positive sales figure (and so needed
\* assembly for its primary stock <= 5) has
\* quantity_for_assembly = min(10, max_possible_assemblies).
C18_NoSalesQuantityIsFlatDefault ==
    \A e \in ReadyItems :
        ( /\ NoSalesData(e.product_sku)
          /\ PrimaryStock(e.product_sku) <= 5 * Scale ) =>
            e.quantity_for_assembly = Min(10, e.max_possible_assemblies)

\* a product needs assembly: positive sales and less than 30 days of inventory
\* at the primary location, or no positive sales and primary stock <= 5
ShouldBeConsidered(product_sku) ==
    LET sales == FirstAvgSales(kpi_df, product_sku)
        stock == PrimaryStock(product_sku)
    IN  \/ sales > 0 /\ stock * 30 < 30 * sales
        \/ sales <= 0 /\ stock <= 5 * Scale

\* a stock-checked component of the product is short
HasShortComponent(product_sku) ==
    \E c \in ExpectedComponents(product_sku) :
        ExpectedAvailable(c) < ExpectedRequired(product_sku, c)

\* C19: every product SKU in assembly_ready or cannot_assemble needs
\* assembly (positive sales and days_of_inventory < 30, or no positive sales
\* and primary stock <= 5); a BOM product that does not is in neither list.
C19_OnlyProductsNeedingAssemblyListed ==
    HasReport =>
        /\ \A e \in ReadyItems : ShouldBeConsidered(e.product_sku)
        /\ \A e \in CannotItems : ShouldBeConsidered(e.product_sku)
        /\ \A p \in Range(BomProducts(bom_df)) :
            ~ShouldBeConsidered(p) =>
                /\ \A e \in ReadyItems : e.product_sku # p
                /\ \A e \in CannotItems : e.product_sku # p

\* a BOM product with a short component that is in neither list: it sells, and
\* has 30 days of inventory or more
C19_Witness ==
    /\ HasReport
    /\ \E p \in Range(BomProducts(bom_df)) :
        /\ FirstAvgSales(kpi_df, p) > 0
        /\ ~ShouldBeConsidered(p)
        /\ HasShortComponent(p)
        /\ \A e \in ReadyItems : e.product_sku # p
        /\ \A e \in CannotItems : e.product_sku # p

\* C20: the required quantity of a component is the sum of the positive
\* quantities of all the product's BOM rows that name it: a blocked product
\* lists exactly the components whose total stock is below that sum, with
\* required = the sum and shortage = the sum - available, and a ready product
\* has every component in stock for the sum.
C20_RequirementsAdditive ==
    HasReport =>
        /\ \A e \in CannotItems :
            /\ e.total_components_required = Cardinality(ExpectedComponents(e.product_sku))
            /\ \A d \in Range(e.component_details) :
                /\ d.sku \in ExpectedComponents(e.product_sku)
                /\ d.required = ExpectedRequired(e.product_sku, d.sku)
                /\ d.shortage = ExpectedRequired(e.product_sku, d.sku) - ExpectedAvailable(d.sku)
            /\ \A c \in ExpectedComponents(e.product_sku) :
                ExpectedAvailable(c) < ExpectedRequired(e.product_sku, c) =>
                    \E d \in Range(e.component_details) : d.sku = c
        /\ \A e \in ReadyItems :
            /\ e.components_needed = Cardinality(ExpectedComponents(e.product_sku))
            /\ \A c \in ExpectedComponents(e.product_sku) :
                ExpectedAvailable(c) >= ExpectedRequired(e.product_sku, c)

\* two BOM rows of 1 x C1 for the product and 1 C1 in stock: blocked, with
\* 2 required and a shortage of 1
C20_Witness ==
    /\ HasReport
    /\ Len(bom_df) = 2
    /\ \A i \in 1..2 : /\ bom_df[i].ProductSKU = P1
                       /\ bom_df[i].ComponentSKU = C1
                       /\ bom_df[i].Quantity = 1 * Scale
    /\ ExpectedAvailable(C1) = 1 * Scale
    /\ \E e \in CannotItems :
        /\ e.product_sku = P1
        /\ e.component_details
             = << [sku |-> C1, required |-> 2 * Scale, available |-> 1 * Scale,
                   shortage |-> 1 * Scale] >>

\* ten times the composite score of a ready entry, from the figures it reports:
\* urgency by available_in_nc and days_of_inventory (in tenths of a day)
Score10(e) ==
    10 * ( IF e.available_in_nc < 0 THEN 1000
           ELSE IF e.available_in_nc = 0 THEN 500
           ELSE IF e.days_of_inventory < 50 THEN 100
           ELSE IF e.days_of_inventory < 150 THEN 50
           ELSE 10 )
    + 10 * e.quantity_for_assembly + e.max_possible_assemblies

HasTransfers == last_call # "none"

\* C22: for a secondary-location row of at least one unit whose SKU sells and
\* has less than 30 days of supply at 'NC - Main', a transfer entry is returned
\* with 1 <= suggested_transfer <= secondary stock, and with suggested_transfer
\* = 1 when the needed quantity 30 * daily_sales - primary stock is at most 1.
C22_VelocityTransferClamped ==
    HasTransfers =>
        \A r \in Range(availability_df) :
            ( /\ r.Location = NCArmory
              /\ r.Available >= 1 * Scale
              /\ FirstAvgSales(kpi_df, r.SKU) > 0
              /\ StockAtMain(r.SKU) * 30 < 30 * FirstAvgSales(kpi_df, r.SKU) ) =>
                \E t \in TransferItems :
                    /\ t.sku = r.SKU
                    /\ 1 <= t.suggested_transfer
                    /\ t.suggested_transfer * Scale <= r.Available
                    /\ FirstAvgSales(kpi_df, r.SKU) - StockAtMain(r.SKU) <= 1 * Scale
                          => t.suggested_transfer = 1

SalesOfFirstRecord(sku) ==
    LET idx == { i \in 1..Len(kpi_df) : kpi_df[i].SKU = sku }
    IN  IF idx = {} THEN 0
        ELSE kpi_df[CHOOSE i \in idx : \A j \in idx : i <= j].AvgSales

\* C24: whatever further records the sales table holds for a SKU, the
\* figures reported for it come from the first: avg_monthly_sales and
\* days_of_inventory of a ready entry, the avg_monthly_sales back-filled into a
\* cannot_assemble entry, avg_monthly_sales and days_supply_in_main of a
\* transfer entry.
C24_FirstSalesRecordUsed ==
    HasTransfers =>
        /\ \A e \in ReadyItems :
            SalesOfFirstRecord(e.product_sku) > 0 =>
                /\ e.avg_monthly_sales = RoundDiv(SalesOfFirstRecord(e.product_sku) * 100, Scale)
                /\ e.days_of_inventory = RoundDiv(PrimaryStock(e.product_sku) * 300,
                                                  SalesOfFirstRecord(e.product_sku))
        /\ \A e \in CannotItems : e.avg_monthly_sales = SalesOfFirstRecord(e.product_sku)
        /\ \A t \in TransferItems :
            IF SalesOfFirstRecord(t.sku) > 0
            THEN /\ t.avg_monthly_sales = RoundDiv(SalesOfFirstRecord(t.sku) * 100, Scale)
                 /\ t.days_supply_in_main = RoundDiv(StockAtMain(t.sku) * 300,
                                                     SalesOfFirstRecord(t.sku))
            ELSE t.avg_monthly_sales = 0

\* a SKU with two sales records, 4 and then 40 per month, reported ready
\* and for transfer with 4.00
C24_Witness ==
    /\ HasReport
    /\ Len(kpi_df) = 2
    /\ kpi_df[1].SKU = kpi_df[2].SKU
    /\ kpi_df[1].AvgSales = 4 * Scale
    /\ kpi_df[2].AvgSales = 40 * Scale
    /\ \E e \in ReadyItems : e.product_sku = kpi_df[1].SKU /\ e.avg_monthly_sales = 400
    /\ \E t \in TransferItems : t.sku = kpi_df[1].SKU /\ t.avg_monthly_sales = 400

\* the same SKU blocked: the back-filled figure is that of the first record
C24_CannotWitness ==
    /\ HasReport
    /\ Len(kpi_df) = 2
    /\ kpi_df[1].SKU = kpi_df[2].SKU
    /\ \E e \in CannotItems : e.product_sku = kpi_df[1].SKU
                                /\ e.avg_monthly_sales = kpi_df[1].AvgSales
                                /\ e.avg_monthly_sales # kpi_df[2].AvgSales

\* the product SKUs of assembly_ready followed by those of cannot_assemble
ListedProducts ==
    IF HasReport
    THEN [i \in 1..Len(returned.assembly_ready) |-> returned.assembly_ready[i].product_sku]
         \o [i \in 1..Len(returned.cannot_assemble) |-> returned.cannot_assemble[i].product_sku]
    ELSE <<>>

\* C25: no product SKU stands twice in assembly_ready and cannot_assemble
\* taken together.
C25_ProductListedAtMostOnce ==
    \A i, j \in 1..Len(ListedProducts) : i # j => ListedProducts[i] # ListedProducts[j]

\* a product with two usable BOM rows, for two components, listed once
C25_Witness ==
    /\ Len(bom_df) = 2
    /\ bom_df[1].ProductSKU = bom_df[2].ProductSKU
    /\ bom_df[1].ComponentSKU # bom_df[2].ComponentSKU
    /\ Cardinality(ExpectedComponents(bom_df[1].ProductSKU)) = 2
    /\ ListedProducts = <<bom_df[1].ProductSKU>>

\* C26: a SKU reported both as a ready product and for transfer has the same
\* primary-location stock in both entries (available_in_nc = qty_in_main), and
\* for every SKU of the inventory table the two analyses sum the same rows.
C26_SamePrimaryStockInBothAnalyses ==
    HasReport =>
        /\ \A e \in ReadyItems : \A t \in TransferItems :
            e.product_sku = t.sku => e.available_in_nc = t.qty_in_main
        /\ \A r \in Range(availability_df) : PrimaryStock(r.SKU) = StockAtMain(r.SKU)

\* C27: whatever the interleaving of start_scheduled_cleanup and
\* stop_scheduled_cleanup calls on the shared manager, at most one thread
\* running _cleanup_loop is alive.
C27_AtMostOneLoopAlive == Cardinality(AliveThreads) <= 1

\* a thread that has left _cleanup_loop
Exited(t) == loop_pc[t] = "dead"

\* a step ends a thread only at the test of "while self.running", read as
\* False, and the except clause is followed by the sleep of the same round
LoopEndsOnlyWhenStopped ==
    \A t \in LoopThreads :
        /\ (~Exited(t) /\ Exited(t)') => (loop_pc[t] = "while" /\ ~running)
        /\ (loop_pc[t] = "except" /\ loop_pc'[t] # "except") => loop_pc'[t] = "sleep"

\* C28: once running is False for good (stop_scheduled_cleanup has cleared it
\* and no start sets it again), every loop thread ends; and a thread never
\* ends while running is True, an exception of run_cleanup included.
C28_LoopExitsAfterStop ==
    /\ (<>[](~running)) => <>[](AliveThreads = {})
    /\ [][LoopEndsOnlyWhenStopped]_vars

\* one loop has ended after a stop; the next one is in its except clause
\* when running is cleared again
C28_Witness ==
    /\ ~running
    /\ \E t \in LoopThreads : Exited(t)
    /\ \E t \in LoopThreads : loop_pc[t] = "except"

\* C29: when process_assembly_files has returned, on whichever path, every
\* file whose save() returned is gone from uploads/assembly unless its own
\* os.remove raised; a removal that raised leaves the other files removed.
C29_SavedFilesRemovedOnReturn ==
    route_pc = "returned" =>
        \A f \in written : f \in disk => f \in removal_failed

\* a data-processing error after three saves; the first removal raised, the
\* two files after it are gone
C29_Witness ==
    /\ route_pc = "returned"
    /\ response = [status |-> 500, error_code |-> "DATA_PROCESSING_ERROR"]
    /\ written = FileKeys
    /\ removal_failed = {FileSpecs[1]}
    /\ disk = {FileSpecs[1]}

\* an upload of the request is missing or fails validate_upload
SomeUploadRejected == \E k \in FileKeys : uploads[k] # "ok"

\* C30: no file is written before all three uploads are validated; a request
\* with a missing or rejected upload ends in 400 with error_code
\* VALIDATION_ERROR, nothing written, no AssemblyProcessor, no alert.
C30_ValidationBeforeAnySave ==
    /\ (disk # {} \/ written # {} \/ temp_files # <<>>) =>
            /\ Len(validated_files) = Len(FileSpecs)
            /\ \A k \in FileKeys : uploads[k] = "ok"
    /\ (route_pc \in {"finally", "returned"} /\ SomeUploadRejected) =>
            /\ response = [status |-> 400, error_code |-> "VALIDATION_ERROR"]
            /\ disk = {} /\ written = {}
            /\ ~processor_invoked
            /\ alerts_sent = 0

\* availability passes, replenishment is too large: the request returned 400
C30_Witness ==
    /\ route_pc = "returned"
    /\ uploads[FileSpecs[1]] = "ok"
    /\ uploads[FileSpecs[2]] = "FILE_SIZE_EXCEEDED"
    /\ validated_files = <<FileSpecs[1]>>
    /\ response.status = 400

====
